---- MODULE Spec2Model ----
(***************************************************************************)
(* ElectroSolve: the circuit graph (graph.rs), the component model         *)
(* (component.rs), the impedance algebra (units.rs) and the series /       *)
(* parallel reducer (reduce.rs) as one state machine.                      *)
(*                                                                         *)
(* Specifications.                                                         *)
(*  - Spec, FairSpec: a caller builds a graph and then calls reduce.       *)
(*  - GraphSpec: the operations of CircuitGraph and reduce in any order.   *)
(*  - UnitsSpec: the combinators of units.rs applied to a slice.           *)
(*                                                                         *)
(* Conventions.                                                            *)
(*  - A Rust Vec<T> is a TLA+ sequence; the element with Rust index i is   *)
(*    at position i + 1 (operator At).  Every index stored in the state    *)
(*    (endpoints, adjacency entries, step members, ground) is the Rust     *)
(*    0-based index.                                                       *)
(*  - f64 values are exact rationals <<numerator, denominator>> in lowest  *)
(*    terms with a positive denominator; a Complex64 is a record of two    *)
(*    rationals, or NaN, the value every 0/0 produces.  Rounding is not    *)
(*    modelled.                                                            *)
(*  - usize counters that wrap are kept as integers; a negative value d    *)
(*    stands for the wrapped value 2^64 + d.                               *)
(***************************************************************************)
EXTENDS Integers, Sequences, FiniteSets, TLC

VARIABLES
    nodes,        \* CircuitGraph::nodes, each with the degree counter reduce.rs keeps
    components,   \* CircuitGraph::components
    adjacency,    \* CircuitGraph::adjacency
    ground,       \* CircuitGraph::ground
    pc,           \* "idle": no reduce call is running; "loop": at the head of
                  \* the loop of reduce; "panicked": a call was aborted by a panic
    steps,        \* the local `steps` of the running reduce call
    results,      \* what the reduce calls made so far returned, oldest first
    profile,      \* "any" until an overflow or a failed debug_assert! shows which
                  \* build this is: "debug" (the checks are on, the panic) or
                  \* "release" (the counter wraps, the assertion is compiled out)
    operands,     \* the slice a combinator of units.rs is called with
    combined      \* what the combinator returned, None before the call

vars == <<nodes, components, adjacency, ground, pc, steps, results, profile,
          operands, combined>>

(***************************************************************************)
(* Bounds of the model.                                                    *)
(***************************************************************************)
\* nodes plus components the caller adds to one graph
MaxSize == 6
\* reduce calls on one graph
MaxRuns == 2

(***************************************************************************)
(* Vec helpers.                                                            *)
(***************************************************************************)
At(v, i) == v[i + 1]

Indices(v) == 0 .. (Len(v) - 1)

\* F applied to the value of v: v is computed once, however often F uses it
Let(v, F(_)) == CHOOSE r \in {F(x) : x \in {v}} : TRUE

SetAt(v, i, x) == [v EXCEPT ![i + 1] = x]

(***************************************************************************)
(* f64 as exact rationals.                                                 *)
(***************************************************************************)
Abs(x) == IF x < 0 THEN -x ELSE x

\* The arithmetic is written as functions, which take their arguments as
\* values: an operand is computed once, however often its result is used.
Gcd[a \in Nat, b \in Nat] == IF b = 0 THEN a ELSE Gcd[b, a % b]

Rat[n \in Int, d \in Int] ==
    LET g == Gcd[Abs(n), Abs(d)]
        s == IF d < 0 THEN -1 ELSE 1
    IN  <<(s * n) \div g, (s * d) \div g>>

Rationals == Int \X Int

R0 == <<0, 1>>
RInt(n) == <<n, 1>>
RAdd[a \in Rationals, b \in Rationals] == Rat[a[1] * b[2] + b[1] * a[2], a[2] * b[2]]
RNeg(a) == <<-a[1], a[2]>>
RMul[a \in Rationals, b \in Rationals] == Rat[a[1] * b[1], a[2] * b[2]]
RDiv[a \in Rationals, b \in Rationals] == Rat[a[1] * b[2], a[2] * b[1]]
RPos(a) == a[1] > 0

(***************************************************************************)
(* The tolerance 1e-12 (component.rs EPSILON, the DC threshold of          *)
(* Capacitor).  Every non-zero rational of the model has a denominator     *)
(* below 2^31, hence a magnitude above 1e-12: |x| < 1e-12 iff x = 0, and   *)
(* x < 1e-12 iff x <= 0.                                                   *)
(***************************************************************************)
AbsBelowEpsilon(a) == a[1] = 0
BelowEpsilon(a) == a[1] <= 0

(***************************************************************************)
(* Complex64.                                                              *)
(***************************************************************************)
Cx(re, im) == [re |-> re, im |-> im]
NaN == [nan |-> TRUE]
IsNaN(z) == "nan" \in DOMAIN z
CZero == Cx(R0, R0)
Complex64 == [re : Rationals, im : Rationals] \cup {NaN}

\* z == Complex64::new(0.0, 0.0): false for NaN
CIsZero(z) == ~IsNaN(z) /\ z = CZero

\* a + b
CAdd[a \in Complex64, b \in Complex64] ==
    IF IsNaN(a) \/ IsNaN(b) THEN NaN
    ELSE Cx(RAdd[a.re, b.re], RAdd[a.im, b.im])

\* 1.0 / z : conj(z) / |z|^2, and 0/0 = NaN in both parts when z = 0
CRecip[z \in Complex64] ==
    IF IsNaN(z) THEN NaN
    ELSE LET n == RAdd[RMul[z.re, z.re], RMul[z.im, z.im]]
         IN  IF n[1] = 0 THEN NaN
             ELSE Cx(RDiv[z.re, n], RDiv[RNeg(z.im), n])

CSum[zs \in Seq(Complex64)] == IF zs = <<>> THEN CZero ELSE CAdd[Head(zs), CSum[Tail(zs)]]

(***************************************************************************)
(* units.rs: validated scalars and the extended impedance domain.          *)
(***************************************************************************)
Known(v) == [known |-> TRUE, val |-> v]
Unknown == [known |-> FALSE]

Ok(v) == [ok |-> TRUE, val |-> v]
Err(e) == [ok |-> FALSE, err |-> e]

\* r > 0.0 && r.is_finite()
Resistance_known(r) ==
    IF RPos(r) THEN Ok(Known(r)) ELSE Err("InvalidResistance")

Finite(z) == [tag |-> "Finite", z |-> z]
Open == [tag |-> "Open"]
Short == [tag |-> "Short"]

is_finite(z) == z.tag = "Finite"
is_open(z) == z.tag = "Open"
is_short(z) == z.tag = "Short"

\* ImpedanceResult::new_finite is called by component.rs and is not defined
\* in units.rs: the value is kept as Finite, a finite zero included.
new_finite(z) == Finite(z)

\* a series combination in which a Short operand absorbs a Finite one
combine_series_short_absorbs(z1, z2) ==
    IF is_open(z1) \/ is_open(z2) THEN Open
    ELSE IF is_short(z1) \/ is_short(z2) THEN Short
    ELSE Finite(CAdd[z1.z, z2.z])

combine_series(z1, z2) ==
    IF is_open(z1) \/ is_open(z2) THEN Open
    ELSE IF is_finite(z1) /\ is_short(z2) THEN Finite(z1.z)
    ELSE IF is_short(z1) /\ is_finite(z2) THEN Finite(z2.z)
    ELSE IF is_short(z1) /\ is_short(z2) THEN Short
    ELSE Finite(CAdd[z1.z, z2.z])

\* a parallel combination whose Open arms come before its Short arm
combine_parallel_open_first(z1, z2) ==
    IF is_open(z1) THEN (IF is_finite(z2) THEN z2 ELSE Open)
    ELSE IF is_open(z2) THEN (IF is_finite(z1) THEN z1 ELSE Open)
    ELSE IF is_short(z1) \/ is_short(z2) THEN Short
    ELSE Finite(CRecip[CAdd[CRecip[z1.z], CRecip[z2.z]]])

\* a parallel combination that returns its first operand when the second is
\* Open, and Open when the first is
combine_parallel_one_sided(z1, z2) ==
    IF is_short(z1) \/ is_short(z2) THEN Short
    ELSE IF is_open(z1) THEN Open
    ELSE IF is_open(z2) THEN z1
    ELSE Finite(CRecip[CAdd[CRecip[z1.z], CRecip[z2.z]]])

combine_parallel(z1, z2) ==
    IF is_short(z1) \/ is_short(z2) THEN Short
    ELSE IF is_finite(z1) /\ is_open(z2) THEN Finite(z1.z)
    ELSE IF is_open(z1) /\ is_finite(z2) THEN Finite(z2.z)
    ELSE IF is_open(z1) /\ is_open(z2) THEN Open
    ELSE Finite(CRecip[CAdd[CRecip[z1.z], CRecip[z2.z]]])

RECURSIVE FiniteVals(_)
FiniteVals(zs) ==
    IF zs = <<>> THEN <<>>
    ELSE IF is_finite(Head(zs)) THEN <<Head(zs).z>> \o FiniteVals(Tail(zs))
         ELSE FiniteVals(Tail(zs))

RECURSIVE Recips(_)
Recips(zs) == IF zs = <<>> THEN <<>> ELSE <<CRecip[Head(zs)]>> \o Recips(Tail(zs))

\* a parallel combination in which an Open element decides the result, as a
\* Short one does
combine_parallel_many_open_dominates(impedances) ==
    IF \E i \in DOMAIN impedances : is_short(impedances[i]) THEN Short
    ELSE IF \E i \in DOMAIN impedances : is_open(impedances[i]) THEN Open
    ELSE LET finite_vals == FiniteVals(impedances)
         IN  IF finite_vals = <<>> THEN Open
             ELSE Finite(CRecip[CSum[Recips(finite_vals)]])

combine_parallel_many(impedances) ==
    IF \E i \in DOMAIN impedances : is_short(impedances[i]) THEN Short
    ELSE LET finite_vals == FiniteVals(impedances)
         IN  IF finite_vals = <<>> THEN Open
             ELSE Finite(CRecip[CSum[Recips(finite_vals)]])

combine_series_many(impedances) ==
    IF \E i \in DOMAIN impedances : is_open(impedances[i]) THEN Open
    ELSE LET finite_vals == FiniteVals(impedances)
         IN  IF finite_vals = <<>> THEN Open
             ELSE Finite(CSum[finite_vals])

(***************************************************************************)
(* component.rs                                                            *)
(***************************************************************************)
Resistor(r) == [tag |-> "Resistor", r |-> r]
Inductor(l) == [tag |-> "Inductor", l |-> l]
Capacitor(c) == [tag |-> "Capacitor", c |-> c]
Impedance(z) == [tag |-> "Impedance", z |-> z]
VoltageSource == [tag |-> "VoltageSource"]
CurrentSource == [tag |-> "CurrentSource"]

\* ComponentKind::impedance(&self, omega); omega is the f64 of the
\* AngularFrequency
impedance(kind, omega) ==
    CASE kind.tag = "Resistor" ->
            IF kind.r.known THEN new_finite(Cx(kind.r.val, R0)) ELSE Open
      [] kind.tag = "Inductor" ->
            IF kind.l.known THEN new_finite(Cx(R0, RMul[omega, kind.l.val])) ELSE Open
      [] kind.tag = "Capacitor" ->
            IF kind.c.known
            THEN IF BelowEpsilon(omega) THEN Open
                 ELSE new_finite(Cx(R0, RDiv[RInt(-1), RMul[omega, kind.c.val]]))
            ELSE Open
      [] kind.tag = "Impedance" -> kind.z
      [] OTHER -> Short

\* a match that takes every kind for passive
is_passive_any(kind) == TRUE

is_passive(kind) ==
    CASE kind.tag \in {"Resistor", "Inductor", "Capacitor"} -> TRUE
      [] kind.tag = "Impedance" -> is_finite(kind.z)
      [] OTHER -> FALSE

impedance_to_kind(z) ==
    CASE is_finite(z) ->
            IF ~IsNaN(z.z) /\ AbsBelowEpsilon(z.z.im)
            THEN LET r == Resistance_known(z.z.re)
                 IN  IF r.ok THEN Ok(Resistor(r.val)) ELSE r
            ELSE Ok(Impedance(new_finite(z.z)))
      [] is_open(z) -> Ok(Impedance(Open))
      [] OTHER -> Ok(Impedance(Short))

(***************************************************************************)
(* graph.rs                                                                *)
(***************************************************************************)
None == [tag |-> "None"]
Some(v) == [tag |-> "Some", v |-> v]

Graph(n, c, a) == [nodes |-> n, components |-> c, adjacency |-> a]

\* Node has the field `degree` that reduce.rs reads and decrements; graph.rs
\* declares no such field and never sets it.  A new node starts at degree 0.
Node(id) == [id |-> id, degree |-> 0]

\* The counterpart of the decrements of apply_reduction: one increment per
\* endpoint of a component added (u64 wrapping kept as in the header).
count_endpoints(nds, n0, n1) ==
    LET n1s == SetAt(nds, n0, [At(nds, n0) EXCEPT !.degree = @ + 1])
    IN  SetAt(n1s, n1, [At(n1s, n1) EXCEPT !.degree = @ + 1])

\* an add_node that inserts at the front, which moves every node by one index
add_node_front(g, id) ==
    [g  |-> Graph(<<Node(id)>> \o g.nodes, g.components, Append(g.adjacency, <<>>)),
     idx |-> Len(g.nodes)]

add_node(g, id) ==
    [g  |-> Graph(Append(g.nodes, Node(id)), g.components, Append(g.adjacency, <<>>)),
     idx |-> Len(g.nodes)]

\* an add_component whose second adjacency push is missing
add_component_one_sided(g, id, kind, n0, n1, checked) ==
    LET idx == Len(g.components)
        comp == [id |-> id, kind |-> kind, nodes |-> <<n0, n1>>,
                 is_active |-> TRUE, cached_impedance |-> None]
        pushed == Append(g.components, comp)
        adj0 == SetAt(g.adjacency, n0, Append(At(g.adjacency, n0), idx))
    IN  IF n0 < Len(g.nodes) /\ n1 < Len(g.nodes)
        THEN [g   |-> Graph(count_endpoints(g.nodes, n0, n1), pushed, adj0),
              idx |-> idx, panicked |-> FALSE]
        ELSE IF checked
        THEN [g |-> g, idx |-> idx, panicked |-> TRUE]
        ELSE IF n0 >= Len(g.adjacency)
        THEN [g |-> Graph(g.nodes, pushed, g.adjacency), idx |-> idx, panicked |-> TRUE]
        ELSE [g |-> Graph(g.nodes, pushed, adj0), idx |-> idx, panicked |-> TRUE]

\* add_component(id, kind, (n0, n1)).  `checked` is the build's
\* debug_assertions: with it an endpoint out of range panics at the
\* debug_assert!, before anything is stored; without it the component is
\* pushed and the panic comes from the first adjacency[..] whose index is out
\* of bounds.  No step of the function compares n0 with n1.
add_component(g, id, kind, n0, n1, checked) ==
    LET idx == Len(g.components)
        comp == [id |-> id, kind |-> kind, nodes |-> <<n0, n1>>,
                 is_active |-> TRUE, cached_impedance |-> None]
        pushed == Append(g.components, comp)
    IN  IF n0 < Len(g.nodes) /\ n1 < Len(g.nodes)
        THEN LET adj0 == SetAt(g.adjacency, n0, Append(At(g.adjacency, n0), idx))
                 adj1 == SetAt(adj0, n1, Append(At(adj0, n1), idx))
             IN  [g   |-> Graph(count_endpoints(g.nodes, n0, n1), pushed, adj1),
                  idx |-> idx, panicked |-> FALSE]
        ELSE IF checked
        THEN [g |-> g, idx |-> idx, panicked |-> TRUE]
        ELSE IF n0 >= Len(g.adjacency)
        THEN [g |-> Graph(g.nodes, pushed, g.adjacency), idx |-> idx, panicked |-> TRUE]
        ELSE [g   |-> Graph(g.nodes, pushed,
                            SetAt(g.adjacency, n0, Append(At(g.adjacency, n0), idx))),
              idx |-> idx, panicked |-> TRUE]

connections_at(g, idx) ==
    SelectSeq(At(g.adjacency, idx), LAMBDA c : At(g.components, c).is_active)

\* the count that takes every entry of the adjacency list
get_node_degree_unfiltered(g, idx) == Len(At(g.adjacency, idx))

\* self.adjacency[idx].iter().filter(|&&c| self.components[c].is_active).count()
get_node_degree(g, idx) ==
    LET adj == At(g.adjacency, idx)
    IN  Cardinality({k \in DOMAIN adj : At(g.components, adj[k]).is_active})

active_component_count(g) ==
    Cardinality({i \in Indices(g.components) : At(g.components, i).is_active})

\* a cache_impedances that also puts every component back in service
cache_impedances_reactivating(comps, omega) ==
    [i \in DOMAIN comps |->
        [comps[i] EXCEPT !.cached_impedance = Some(impedance(comps[i].kind, omega)),
                         !.is_active = TRUE]]

cache_impedances(comps, omega) ==
    [i \in DOMAIN comps |->
        IF comps[i].is_active
        THEN [comps[i] EXCEPT !.cached_impedance = Some(impedance(comps[i].kind, omega))]
        ELSE comps[i]]

is_ground(g_ground, idx) == g_ground # None /\ g_ground.v = idx

(***************************************************************************)
(* reduce.rs                                                               *)
(***************************************************************************)
\* reduce.rs reads cached_impedance as a Complex64 and tests it against
\* Complex64::new(0.0, 0.0); graph.rs stores Option<ImpedanceResult>.  The
\* complex number the reducer works with is z for Some(Finite(z)) and zero,
\* the value its own tests skip, when the cache holds no finite value (None,
\* Some(Short)); Some(Open) has no complex value.
cached_complex(comp) ==
    LET c == comp.cached_impedance
    IN  IF c = None THEN CZero
        ELSE IF is_finite(c.v) THEN c.v.z
        ELSE IF is_short(c.v) THEN CZero
        ELSE NaN

Step(kind, members, z) ==
    [kind |-> kind, components |-> members, equivalent |-> 0, impedance |-> z]

\* the body of the loop of find_series_reduction for one node_idx:
\* Some(step) where the loop returns, None where it continues
series_at(g, node_idx) ==
    LET node == At(g.nodes, node_idx)
        connected == connections_at(g, node_idx)
        comp1_idx == connected[1]
        comp2_idx == connected[2]
        comp1 == At(g.components, comp1_idx)
        comp2 == At(g.components, comp2_idx)
    IN  IF node.degree # 2 THEN None
        ELSE IF Len(connected) # 2 THEN None
        ELSE IF ~is_passive(comp1.kind) \/ ~is_passive(comp2.kind) THEN None
        ELSE IF CIsZero(cached_complex(comp1)) \/ CIsZero(cached_complex(comp2)) THEN None
        ELSE Some(Step("Series", <<comp1_idx, comp2_idx>>,
                       CAdd[cached_complex(comp1), cached_complex(comp2)]))

RECURSIVE series_scan(_, _)
series_scan(g, node_idx) ==
    IF node_idx >= Len(g.nodes) THEN None
    ELSE LET s == series_at(g, node_idx)
         IN  IF s # None THEN s ELSE series_scan(g, node_idx + 1)

find_series_reduction(g) == series_scan(g, 0)

parallel_key(comp) ==
    IF comp.nodes[1] < comp.nodes[2] THEN comp.nodes ELSE <<comp.nodes[2], comp.nodes[1]>>

\* a grouping that leaves out the is_active test
parallel_groups_retired(g) ==
    LET grouped(i) == is_passive(At(g.components, i).kind)
        keys == {parallel_key(At(g.components, i)) : i \in {j \in Indices(g.components) : grouped(j)}}
        all == [i \in 1 .. Len(g.components) |-> i - 1]
    IN  [k \in keys |->
            SelectSeq(all, LAMBDA i : grouped(i) /\ parallel_key(At(g.components, i)) = k)]

\* the HashMap parallel_groups: key -> member indices in ascending order
parallel_groups(g) ==
    LET grouped(i) == At(g.components, i).is_active /\ is_passive(At(g.components, i).kind)
        keys == {parallel_key(At(g.components, i)) : i \in {j \in Indices(g.components) : grouped(j)}}
        all == [i \in 1 .. Len(g.components) |-> i - 1]
    IN  [k \in keys |->
            SelectSeq(all, LAMBDA i : grouped(i) /\ parallel_key(At(g.components, i)) = k)]

RECURSIVE admittance_sum(_, _)
admittance_sum(g, indices) ==
    IF indices = <<>> THEN CZero
    ELSE LET z == cached_complex(At(g.components, Head(indices)))
         IN  IF CIsZero(z) THEN admittance_sum(g, Tail(indices))
             ELSE CAdd[CRecip[z], admittance_sum(g, Tail(indices))]

\* The steps find_parallel_reduction can return.  max_by_key keeps a group of
\* maximal length; which one, when several have that length, depends on the
\* iteration order of the HashMap, which is not fixed.
find_parallel_reduction(g) ==
    LET groups == parallel_groups(g)
        many == {k \in DOMAIN groups : Len(groups[k]) > 1}
        best == {k \in many : \A k2 \in many : Len(groups[k2]) <= Len(groups[k])}
    IN  IF many = {} THEN {None}
        ELSE {Some(Step("Parallel", groups[k], CRecip[admittance_sum(g, groups[k])])) : k \in best}

\* one pass of the body of the `for comp_idx in components` loops of
\* apply_reduction.  `checked` is the build's overflow check: with it the
\* first decrement of a zero counter panics and the pass stops there
\* (overflow = TRUE); without it the counter wraps and the pass goes on.
retire_one(comps, nds, comp_idx, checked) ==
    LET comps1 == SetAt(comps, comp_idx, [At(comps, comp_idx) EXCEPT !.is_active = FALSE])
        ns == At(comps, comp_idx).nodes
        under0 == At(nds, ns[1]).degree = 0
        nds1 == SetAt(nds, ns[1], [At(nds, ns[1]) EXCEPT !.degree = @ - 1])
        under1 == At(nds1, ns[2]).degree = 0
        nds2 == SetAt(nds1, ns[2], [At(nds1, ns[2]) EXCEPT !.degree = @ - 1])
    IN  IF checked /\ under0
        THEN [components |-> comps1, nodes |-> nds, overflow |-> TRUE]
        ELSE IF checked /\ under1
        THEN [components |-> comps1, nodes |-> nds1, overflow |-> TRUE]
        ELSE [components |-> comps1, nodes |-> nds2, overflow |-> under0 \/ under1]

\* the loop itself, over the members that are left
RECURSIVE retire(_, _, _, _)
retire(comps, nds, members, checked) ==
    IF members = <<>> THEN [components |-> comps, nodes |-> nds, overflow |-> FALSE]
    ELSE Let(retire_one(comps, nds, Head(members), checked), LAMBDA one :
             IF checked /\ one.overflow THEN one
             ELSE Let(retire(one.components, one.nodes, Tail(members), checked), LAMBDA rest :
                      [rest EXCEPT !.overflow = @ \/ one.overflow]))

\* the endpoints apply_reduction gives the equivalent of a step
step_endpoints(g, step) ==
    LET comp1 == At(g.components, step.components[1])
        comp2 == At(g.components, step.components[2])
        middle_idx == IF comp1.nodes[1] = comp2.nodes[1] \/ comp1.nodes[1] = comp2.nodes[2]
                      THEN comp1.nodes[1] ELSE comp1.nodes[2]
        outer1 == IF comp1.nodes[1] # middle_idx THEN comp1.nodes[1] ELSE comp1.nodes[2]
        outer2 == IF comp2.nodes[1] # middle_idx THEN comp2.nodes[1] ELSE comp2.nodes[2]
    IN  IF step.kind = "Series" THEN <<outer1, outer2>> ELSE comp1.nodes

\* apply_reduction(graph, step): the graph and the step it leaves, what it
\* returns, and whether it panicked (checked build) or wrapped a counter
apply_reduction(g, step, checked) ==
    Let(retire(g.components, g.nodes, step.components, checked), LAMBDA r :
    Let(impedance_to_kind(Finite(step.impedance)), LAMBDA kind :
        LET ends == step_endpoints(g, step)
            g1 == Graph(r.nodes, r.components, g.adjacency)
        IN  IF checked /\ r.overflow
            THEN [g |-> g1, step |-> step, ret |-> Err("panic"), panicked |-> TRUE,
                  overflow |-> TRUE]
            ELSE IF ~kind.ok
            THEN [g |-> g1, step |-> step, ret |-> kind, panicked |-> FALSE,
                  overflow |-> r.overflow]
            ELSE Let(add_component(g1, "EQ", kind.val, ends[1], ends[2], checked), LAMBDA a :
                     [g |-> a.g, step |-> [step EXCEPT !.equivalent = a.idx],
                      ret |-> Ok(a.idx), panicked |-> a.panicked, overflow |-> r.overflow])))

(***************************************************************************)
(* Inputs.                                                                 *)
(***************************************************************************)
R1 == Resistor(Known(RInt(1)))
R2 == Resistor(Known(RInt(2)))
L1 == Inductor(Known(RInt(1)))
C1 == Capacitor(Known(RInt(1)))
ZShort == Impedance(Short)
ZOpen == Impedance(Open)

\* The workloads: the kinds of the components of one graph come from one of
\* these sets, and a ground is designated in the graphs of resistors.
Resistive == {R1, R2}

Palettes ==
    { Resistive, {L1, C1}, {R1, VoltageSource}, {R1, CurrentSource},
      {R1, ZShort}, {R1, ZOpen} }

Workload(kinds, gnd) ==
    \E P \in Palettes : kinds \subseteq P /\ (gnd # None => P = Resistive)

Kinds == UNION Palettes

\* the angular frequencies reduce is called with (rad/s)
Omegas == {RInt(1)}

\* the node indices set_ground is called with
GroundInputs == {0}

\* the components the caller added (the reducer's own are named "EQ")
Built == {i \in Indices(components) : At(components, i).id # "EQ"}

BuiltKinds == {At(components, i).kind : i \in Built}

G == Graph(nodes, components, adjacency)

(***************************************************************************)
(* The state machine.                                                      *)
(***************************************************************************)
Init ==
    /\ nodes = <<>>
    /\ components = <<>>
    /\ adjacency = <<>>
    /\ ground = None
    /\ pc = "idle"
    /\ steps = <<>>
    /\ results = <<>>
    /\ profile = "any"
    /\ operands = <<>>
    /\ combined = None

\* graph.add_node(id); the caller builds the graph before it reduces it
AddNode ==
    /\ pc = "idle"
    /\ results = <<>>
    /\ Len(nodes) + Len(components) < MaxSize
    /\ LET a == add_node(G, "n")
       IN  /\ nodes' = a.g.nodes
           /\ adjacency' = a.g.adjacency
    /\ UNCHANGED <<components, ground, pc, steps, results, profile, operands, combined>>

\* graph.add_component(id, kind, (n0, n1)) with two distinct endpoints in range
AddComponent ==
    /\ pc = "idle"
    /\ results = <<>>
    /\ Len(nodes) + Len(components) < MaxSize
    /\ \E kind \in Kinds, n0 \in Indices(nodes), n1 \in Indices(nodes) :
          /\ n0 # n1
          /\ Workload(BuiltKinds \cup {kind}, ground)
          /\ LET a == add_component(G, "C", kind, n0, n1, profile = "debug")
             IN  /\ nodes' = a.g.nodes
                 /\ components' = a.g.components
                 /\ adjacency' = a.g.adjacency
    /\ UNCHANGED <<ground, pc, steps, results, profile, operands, combined>>

\* graph.set_ground(idx)
SetGround ==
    /\ pc = "idle"
    /\ \E idx \in GroundInputs :
          /\ Workload(BuiltKinds, Some(idx))
          /\ ground' = Some(idx)
    /\ UNCHANGED <<nodes, components, adjacency, pc, steps, results, profile, operands, combined>>

\* reduce(graph, omega) up to the head of its loop
ReduceStart ==
    /\ pc = "idle"
    /\ Len(results) < MaxRuns
    /\ \E omega \in Omegas : components' = cache_impedances(components, omega)
    /\ steps' = <<>>
    /\ pc' = "loop"
    /\ UNCHANGED <<nodes, adjacency, ground, results, profile, operands, combined>>

\* apply_reduction(graph, &mut step); steps.push(step); continue
\* (the Result of apply_reduction is dropped by reduce)
Apply(step) ==
    \E checked \in (IF profile = "any" THEN BOOLEAN ELSE {profile = "debug"}) :
        \E out \in {apply_reduction(G, step, checked)} :
            /\ nodes' = out.g.nodes
            /\ components' = out.g.components
            /\ adjacency' = out.g.adjacency
            /\ profile' = IF out.overflow
                          THEN (IF checked THEN "debug" ELSE "release")
                          ELSE profile
            /\ IF out.panicked
               THEN pc' = "panicked" /\ steps' = steps
               ELSE pc' = "loop" /\ steps' = Append(steps, out.step)
            /\ UNCHANGED <<ground, results, operands, combined>>

\* one iteration of the loop that finds a series step
ReduceSeries ==
    /\ pc = "loop"
    /\ \E s \in {find_series_reduction(G)} :
          /\ s # None
          /\ Apply(s.v)

\* one iteration of the loop that finds no series step and a parallel step
ReduceParallel ==
    /\ pc = "loop"
    /\ find_series_reduction(G) = None
    /\ \E s \in find_parallel_reduction(G) :
          /\ s # None
          /\ Apply(s.v)

\* neither: break; Ok(steps)
ReduceReturn ==
    /\ pc = "loop"
    /\ find_series_reduction(G) = None
    /\ find_parallel_reduction(G) = {None}
    /\ results' = Append(results, Ok(steps))
    /\ steps' = <<>>
    /\ pc' = "idle"
    /\ UNCHANGED <<nodes, components, adjacency, ground, profile, operands, combined>>

Next ==
    \/ AddNode
    \/ AddComponent
    \/ SetGround
    \/ ReduceStart
    \/ ReduceSeries
    \/ ReduceParallel
    \/ ReduceReturn

Spec == Init /\ [][Next]_vars

\* a call of reduce that has started runs on: the loop takes its next
\* iteration, or returns, whenever it can
FairSpec == Spec /\ WF_vars(ReduceSeries \/ ReduceParallel \/ ReduceReturn)

(***************************************************************************)
(* Definitions shared by the properties.                                   *)
(***************************************************************************)
Comp(i) == At(components, i)

Active == {i \in Indices(components) : Comp(i).is_active}

\* passive as section 3 of the specification words it: R, L, C, or an
\* Impedance with a Finite value
PassiveKind(kind) ==
    \/ kind.tag \in {"Resistor", "Inductor", "Capacitor"}
    \/ kind.tag = "Impedance" /\ kind.z.tag = "Finite"

ActivePassive(comps) ==
    {i \in Indices(comps) : At(comps, i).is_active /\ PassiveKind(At(comps, i).kind)}

\* every step logged so far: the returned logs, oldest first, then the log
\* of the running call
RECURSIVE Logs(_)
Logs(rs) == IF rs = <<>> THEN <<>> ELSE Head(rs).val \o Logs(Tail(rs))

AllSteps == Logs(results) \o steps

Members(step) == {step.components[k] : k \in DOMAIN step.components}

\* an iteration of the loop of reduce applied a step and pushed it
Pushed == pc = "loop" /\ pc' = "loop" /\ steps' # steps

WellFormedInput == \A i \in Built : Comp(i).nodes[1] # Comp(i).nodes[2]

(***************************************************************************)
(* C1.  In a graph whose components were added with two distinct           *)
(* endpoints, no active component is ever a self-loop, during or after     *)
(* reduce.                                                                 *)
(***************************************************************************)
C1_NoSelfLoop ==
    WellFormedInput => \A i \in Active : Comp(i).nodes[1] # Comp(i).nodes[2]

(***************************************************************************)
(* C2.  Every call of reduce terminates: once the loop has started it      *)
(* eventually finds no step and reduce returns its log.                    *)
(***************************************************************************)
C2_ReduceTerminates == (pc = "loop") ~> (pc = "idle")

(***************************************************************************)
(* C3.  Every step reduce applies strictly decreases the number of active  *)
(* passive components.                                                     *)
(***************************************************************************)
C3_StepDecreasesActivePassive ==
    [][Pushed =>
        Cardinality(ActivePassive(components')) < Cardinality(ActivePassive(components))]_vars

(***************************************************************************)
(* C4.  A reduce call on a graph a reduce call has returned from applies   *)
(* no step: its log stays empty, it returns an empty log, and it does not  *)
(* abort.                                                                  *)
(***************************************************************************)
C4_Idempotent ==
    results # <<>> =>
        /\ steps = <<>>
        /\ pc # "panicked"
        /\ \A k \in 2 .. Len(results) : results[k].val = <<>>

(***************************************************************************)
(* The driving-point impedance of the network of active components, by     *)
(* nodal analysis: with L the admittance (Laplacian) matrix of the         *)
(* connected part that holds u, Z(u, v) = det(L without rows and columns   *)
(* u, v) / det(L without row and column u); Open when no path joins u and  *)
(* v.  It is defined for networks whose active components all have a       *)
(* Finite, non-zero impedance and whose matrix is not singular.            *)
(***************************************************************************)
CNeg(z) == IF IsNaN(z) THEN NaN ELSE Cx(RNeg(z.re), RNeg(z.im))

CMul[a \in Complex64, b \in Complex64] ==
    IF IsNaN(a) \/ IsNaN(b) THEN NaN
    ELSE Cx(RAdd[RMul[a.re, b.re], RNeg(RMul[a.im, b.im])],
            RAdd[RMul[a.re, b.im], RMul[a.im, b.re]])

COne == Cx(RInt(1), R0)

\* the impedance a component has at omega
Z_of(comp, omega) == impedance(comp.kind, omega)

Regular(comps, omega) ==
    \A i \in Indices(comps) :
        At(comps, i).is_active =>
            LET z == Z_of(At(comps, i), omega)
            IN  is_finite(z) /\ ~IsNaN(z.z) /\ ~CIsZero(z.z)

Joining(comps, a, b) ==
    {i \in Indices(comps) : At(comps, i).is_active
                             /\ {At(comps, i).nodes[1], At(comps, i).nodes[2]} = {a, b}}

Incident(comps) ==
    UNION {{At(comps, i).nodes[1], At(comps, i).nodes[2]} :
              i \in {j \in Indices(comps) : At(comps, j).is_active}}

RECURSIVE Reach(_, _)
Reach(comps, S) ==
    LET T == S \cup {n \in Incident(comps) : \E m \in S : m # n /\ Joining(comps, m, n) # {}}
    IN  IF T = S THEN S ELSE Reach(comps, T)

RECURSIVE Admittance(_, _, _)
Admittance(comps, omega, I) ==
    IF I = {} THEN CZero
    ELSE LET i == CHOOSE j \in I : TRUE
         IN  CAdd[CRecip[Z_of(At(comps, i), omega).z], Admittance(comps, omega, I \ {i})]

RECURSIVE SumAdmittance(_, _, _, _)
SumAdmittance(comps, omega, a, S) ==
    IF S = {} THEN CZero
    ELSE LET b == CHOOSE n \in S : TRUE
         IN  CAdd[Admittance(comps, omega, Joining(comps, a, b)),
                  SumAdmittance(comps, omega, a, S \ {b})]

Laplacian(comps, omega, S) ==
    [a \in S |-> [b \in S |->
        IF a = b THEN SumAdmittance(comps, omega, a, S \ {a})
        ELSE CNeg(Admittance(comps, omega, Joining(comps, a, b)))]]

\* the elements of a set of numbers in ascending order
RECURSIVE Sorted(_)
Sorted(S) == IF S = {} THEN <<>>
             ELSE LET m == CHOOSE x \in S : \A y \in S : x <= y
                  IN  <<m>> \o Sorted(S \ {m})

Without(sq, j) == [k \in 1 .. Len(sq) - 1 |-> IF k < j THEN sq[k] ELSE sq[k + 1]]

\* the determinant of the rows rs and columns cs of M, expanded along the
\* first row; DetFrom adds the terms of columns j, j + 1, ...
RECURSIVE Det(_, _, _)
RECURSIVE DetFrom(_, _, _, _)
Det(M, rs, cs) == IF rs = <<>> THEN COne ELSE DetFrom(M, rs, cs, 1)

DetFrom(M, rs, cs, j) ==
    IF j > Len(cs) THEN CZero
    ELSE LET term == CMul[M[rs[1]][cs[j]], Det(M, Tail(rs), Without(cs, j))]
         IN  CAdd[IF j % 2 = 1 THEN term ELSE CNeg(term), DetFrom(M, rs, cs, j + 1)]

Singular == [tag |-> "Singular"]

DrivingPoint(comps, omega, u, v) ==
    Let(Reach(comps, {u}), LAMBDA S :
        IF v \notin S THEN Open
        ELSE Let(Laplacian(comps, omega, S), LAMBDA M :
             Let(Det(M, Sorted(S \ {u}), Sorted(S \ {u})), LAMBDA den :
                 IF CIsZero(den) THEN Singular
                 ELSE Finite(CMul[Det(M, Sorted(S \ {u, v}), Sorted(S \ {u, v})),
                                  CRecip[den]]))))

(***************************************************************************)
(* C5.  Each step reduce applies preserves the driving-point impedance     *)
(* between every two nodes that are still incident to an active component  *)
(* after the step.                                                         *)
(***************************************************************************)
C5_StepPreservesImpedance ==
    [][Pushed =>
        \A omega \in Omegas :
            (Regular(components, omega) /\ Regular(components', omega)) =>
                \A u, v \in Incident(components') :
                    (/\ u < v
                     /\ DrivingPoint(components, omega, u, v) # Singular
                     /\ DrivingPoint(components', omega, u, v) # Singular)
                    => DrivingPoint(components', omega, u, v)
                           = DrivingPoint(components, omega, u, v)]_vars

(***************************************************************************)
(* C6.  A log reduce returns as Ok holds no step whose equivalent could    *)
(* not be created: the equivalent of every returned step is a component    *)
(* the reducer added.                                                      *)
(***************************************************************************)
C6_NoSuccessWithoutEquivalent ==
    \A k \in DOMAIN results :
        results[k].ok =>
            \A j \in DOMAIN results[k].val :
                LET e == results[k].val[j].equivalent
                IN  e \in Indices(components) /\ Comp(e).id = "EQ"

(***************************************************************************)
(* C7.  A chain of n >= 2 known resistors, Ri between node i-1 and node i, *)
(* is left by reduce with exactly one active component, whose cached       *)
(* impedance is Finite(R1 + ... + Rn).                                     *)
(***************************************************************************)
IsKnownResistor(kind) == kind.tag = "Resistor" /\ kind.r.known

IsChain ==
    /\ Cardinality(Built) >= 2
    /\ Len(nodes) = Cardinality(Built) + 1
    /\ \A i \in Built : IsKnownResistor(Comp(i).kind) /\ Comp(i).nodes = <<i, i + 1>>

RECURSIVE SumR(_)
SumR(S) == IF S = {} THEN R0
           ELSE LET i == CHOOSE j \in S : TRUE
                IN  RAdd[Comp(i).kind.r.val, SumR(S \ {i})]

RECURSIVE SumG(_)
SumG(S) == IF S = {} THEN R0
           ELSE LET i == CHOOSE j \in S : TRUE
                IN  RAdd[RDiv[RInt(1), Comp(i).kind.r.val], SumG(S \ {i})]

Returned == pc = "idle" /\ results # <<>>

C7_SeriesChain ==
    (Returned /\ IsChain) =>
        /\ Cardinality(Active) = 1
        /\ \A i \in Active :
               Comp(i).cached_impedance = Some(Finite(Cx(SumR(Built), R0)))

(***************************************************************************)
(* C8.  A bank of k >= 2 known resistors, all between node 0 (the ground)  *)
(* and node 1, is left by reduce with exactly one active component, which  *)
(* connects node 0 and node 1 and whose cached impedance is                *)
(* Finite(1 / (1/R1 + ... + 1/Rk)).                                        *)
(***************************************************************************)
IsBank ==
    /\ Cardinality(Built) >= 2
    /\ Len(nodes) = 2
    /\ ground = Some(0)
    /\ \A i \in Built : IsKnownResistor(Comp(i).kind) /\ Comp(i).nodes = <<0, 1>>

C8_ParallelBank ==
    (Returned /\ IsBank) =>
        /\ Cardinality(Active) = 1
        /\ \A i \in Active :
               /\ {Comp(i).nodes[1], Comp(i).nodes[2]} = {0, 1}
               /\ Comp(i).cached_impedance =
                      Some(Finite(Cx(RDiv[RInt(1), SumG(Built)], R0)))

(***************************************************************************)
(* C9.  Only passive components take part in reductions: every member of   *)
(* a step reduce applies is an R, L, C or a Finite Impedance, and a        *)
(* component that is a source or an Open or Short Impedance stays active   *)
(* with its kind and its endpoints.                                        *)
(***************************************************************************)
C9_OnlyPassiveReduced ==
    [][/\ Pushed =>
            \A m \in Members(steps'[Len(steps')]) : PassiveKind(Comp(m).kind)
       /\ \A i \in Indices(components) :
            (Comp(i).is_active /\ ~PassiveKind(Comp(i).kind)) =>
                /\ At(components', i).is_active
                /\ At(components', i).kind = Comp(i).kind
                /\ At(components', i).nodes = Comp(i).nodes]_vars

\* a reduce call returned a non-empty log and left a non-passive component
\* active at a node whose only other active component is passive
C9_Witness ==
    /\ Returned
    /\ results[1].val # <<>>
    /\ \E i \in Active, j \in Active :
          /\ ~PassiveKind(Comp(i).kind)
          /\ PassiveKind(Comp(j).kind)
          /\ \E n \in Indices(nodes) :
                /\ At(nodes, n).degree = 2
                /\ connections_at(G, n) \in {<<i, j>>, <<j, i>>}

(***************************************************************************)
(* C10.  Members of a step are active when the step is found and appear    *)
(* in no step logged before it; an inactive component is never active      *)
(* again.                                                                  *)
(***************************************************************************)
C10_InactiveNeverReferenced ==
    [][/\ Pushed =>
            \A m \in Members(steps'[Len(steps')]) :
                /\ Comp(m).is_active
                /\ \A k \in DOMAIN AllSteps : m \notin Members(AllSteps[k])
       /\ \A i \in Indices(components) :
            ~Comp(i).is_active => ~At(components', i).is_active]_vars

\* the logs hold several steps, all their members are inactive, and the
\* last step retired the equivalent an earlier step created
C10_Witness ==
    /\ Len(AllSteps) >= 2
    /\ \A k \in DOMAIN AllSteps : \A m \in Members(AllSteps[k]) : ~Comp(m).is_active
    /\ \E k \in DOMAIN AllSteps : Comp(AllSteps[k].equivalent).id = "EQ"
                                    /\ AllSteps[k].equivalent \in Members(AllSteps[Len(AllSteps)])

(***************************************************************************)
(* C11.  The ground node is never used as a series pivot: the middle node  *)
(* of a Series step reduce applies is not the ground node, and a ground    *)
(* node with an active incident component before a step still has one      *)
(* after it.                                                               *)
(***************************************************************************)
\* the node find_series_reduction stopped at: the first node whose active
\* connections are the two members of the step
Pivot(step) ==
    CHOOSE n \in Indices(nodes) :
        /\ connections_at(G, n) = step.components
        /\ \A m \in Indices(nodes) : connections_at(G, m) = step.components => n <= m

C11_GroundNeverPivot ==
    [][Pushed =>
        LET step == steps'[Len(steps')]
        IN  /\ step.kind = "Series" => ~is_ground(ground, Pivot(step))
            /\ \A n \in Indices(nodes) :
                  (is_ground(ground, n) /\ connections_at(G, n) # <<>>)
                  => connections_at(Graph(nodes', components', adjacency'), n) # <<>>]_vars

(***************************************************************************)
(* C12.  After every step reduce applies and when it returns, every active *)
(* component has a cached impedance, and the equivalent of each step has   *)
(* the impedance of the step as its cached impedance.                      *)
(***************************************************************************)
C12_ActiveComponentsCached ==
    (pc = "loop" \/ Returned) =>
        /\ \A i \in Active : Comp(i).cached_impedance # None
        /\ \A k \in DOMAIN steps :
              Comp(steps[k].equivalent).cached_impedance
                  = Some(new_finite(steps[k].impedance))

(***************************************************************************)
(* The graph operations called in any order.  Here the caller is not held  *)
(* to the build-then-reduce order of Spec: it adds nodes and components    *)
(* at any time, passes add_component any index up to one past the last     *)
(* node and set_ground an index the graph may not have, clears is_active   *)
(* of a component (the field is public, and the tests of graph_topology.rs *)
(* do so), and calls cache_impedances and reduce in whatever state the     *)
(* graph is in.                                                            *)
(***************************************************************************)
\* the caller adds at most this many nodes and components together
MaxGraph == 4

GraphKinds == {R1, C1}

\* the indices set_ground is called with
GroundIndices == {0, 1}

\* the build profiles a panic can still be observed under
Profiles == IF profile = "any" THEN BOOLEAN ELSE {profile = "debug"}

\* the caller names its nodes in the order it adds them
NodeId(k) == <<"n", k>>

CallAddNode ==
    /\ pc = "idle"
    /\ Len(nodes) + Cardinality(Built) < MaxGraph
    /\ LET a == add_node(G, NodeId(Len(nodes)))
       IN  /\ nodes' = a.g.nodes
           /\ adjacency' = a.g.adjacency
    /\ UNCHANGED <<components, ground, pc, steps, results, profile, operands, combined>>

\* graph.add_component(id, kind, (n0, n1)) with any two indices
CallAddComponent ==
    /\ pc = "idle"
    /\ Len(nodes) + Cardinality(Built) < MaxGraph
    /\ \E kind \in GraphKinds, n0 \in 0 .. Len(nodes), n1 \in 0 .. Len(nodes) :
          \E checked \in Profiles :
             \E a \in {add_component(G, "C", kind, n0, n1, checked)} :
                /\ nodes' = a.g.nodes
                /\ components' = a.g.components
                /\ adjacency' = a.g.adjacency
                /\ pc' = IF a.panicked THEN "panicked" ELSE "idle"
                /\ profile' = IF a.panicked
                              THEN (IF checked THEN "debug" ELSE "release")
                              ELSE profile
    /\ UNCHANGED <<ground, steps, results, operands, combined>>

\* graph.set_ground(idx), whether or not the graph has a node idx
CallSetGround ==
    /\ pc = "idle"
    /\ \E idx \in GroundIndices : ground' = Some(idx)
    /\ UNCHANGED <<nodes, components, adjacency, pc, steps, results, profile, operands, combined>>

\* graph.components[comp_idx].is_active = false
Deactivate ==
    /\ pc = "idle"
    /\ \E comp_idx \in Active :
          components' = SetAt(components, comp_idx, [Comp(comp_idx) EXCEPT !.is_active = FALSE])
    /\ UNCHANGED <<nodes, adjacency, ground, pc, steps, results, profile, operands, combined>>

\* graph.cache_impedances(omega)
CallCacheImpedances(omega) ==
    /\ pc = "idle"
    /\ components' = cache_impedances(components, omega)
    /\ UNCHANGED <<nodes, adjacency, ground, pc, steps, results, profile, operands, combined>>

GraphNext ==
    \/ CallAddNode
    \/ CallAddComponent
    \/ CallSetGround
    \/ Deactivate
    \/ \E omega \in Omegas : CallCacheImpedances(omega)
    \/ ReduceStart
    \/ ReduceSeries
    \/ ReduceParallel
    \/ ReduceReturn

GraphSpec == Init /\ [][GraphNext]_vars

(***************************************************************************)
(* C13.  As long as no call has panicked, the adjacency lists agree with   *)
(* the component store: there is one list per node; the list of node n     *)
(* holds the indices of exactly the stored components, active or not,      *)
(* that have n as an endpoint; every endpoint is the index of a node; and  *)
(* every active component is among the connections_at of both its          *)
(* endpoints.                                                              *)
(***************************************************************************)
Elements(sq) == {sq[k] : k \in DOMAIN sq}

Endpoints(comp) == {comp.nodes[1], comp.nodes[2]}

C14_AddComponentValidates ==
    [][(CallAddComponent /\ <<components, adjacency>>' # <<components, adjacency>>) =>
        LET comp == components'[Len(components')]
        IN  /\ comp.nodes[1] # comp.nodes[2]
            /\ Endpoints(comp) \subseteq Indices(nodes)]_vars

(***************************************************************************)
(* C15.  connections_at(n) returns only active components that have n as  *)
(* an endpoint, and get_node_degree(n) is the length of connections_at(n), *)
(* whatever components were added, deactivated or reduced before.          *)
(***************************************************************************)
C15_DegreeMatchesConnections ==
    \A n \in Indices(nodes) :
        /\ \A c \in Elements(connections_at(G, n)) :
              Comp(c).is_active /\ n \in Endpoints(Comp(c))
        /\ get_node_degree(G, n) = Len(connections_at(G, n))

\* a node lists a component the caller deactivated, a member reduce retired
\* and an active component
C15_Witness ==
    \E n \in Indices(nodes) :
        /\ get_node_degree(G, n) > 0
        /\ \E c \in Elements(At(adjacency, n)) :
              /\ ~Comp(c).is_active
              /\ \A k \in DOMAIN AllSteps : c \notin Members(AllSteps[k])
        /\ \E c \in Elements(At(adjacency, n)) :
              /\ ~Comp(c).is_active
              /\ \E k \in DOMAIN AllSteps : c \in Members(AllSteps[k])

(***************************************************************************)
(* C16.  A call of cache_impedances(omega), in whatever state the graph    *)
(* is, leaves every active component with cached_impedance =               *)
(* Some(kind.impedance(omega)) and every inactive component with no cached *)
(* value.                                                                  *)
(***************************************************************************)
C16_CacheImpedances ==
    [][\A omega \in Omegas :
          CallCacheImpedances(omega) =>
              \A i \in Indices(components') :
                  LET comp == At(components', i)
                  IN  IF comp.is_active
                      THEN comp.cached_impedance = Some(impedance(comp.kind, omega))
                      ELSE comp.cached_impedance = None]_vars

(***************************************************************************)
(* C17.  Node and component indices are append-only and stable: add_node   *)
(* and add_component return the length of their store before the call, and *)
(* no step of the program removes or reorders a stored node or component   *)
(* (the stores only grow, and what is stored at an index keeps its id, its *)
(* kind and its endpoints).                                                *)
(***************************************************************************)
\* v2 is v1 with zero or more elements appended, each element compared by key
Extends(v1, v2, key(_)) ==
    /\ Len(v2) >= Len(v1)
    /\ \A i \in Indices(v1) : key(At(v2, i)) = key(At(v1, i))

C17_IndicesAppendOnly ==
    [][/\ Extends(nodes, nodes', LAMBDA node : node.id)
       /\ Extends(components, components', LAMBDA comp : <<comp.id, comp.kind, comp.nodes>>)
       /\ add_node(G, NodeId(Len(nodes))).idx = Len(nodes)
       /\ \A n1 \in {0, Len(nodes)} :
              add_component(G, "C", R1, 0, n1, FALSE).idx = Len(components)
       /\ Len(nodes') # Len(nodes) =>
              /\ Len(nodes') = Len(nodes) + 1
              /\ At(nodes', Len(nodes)).id = NodeId(Len(nodes))
       /\ Len(components') # Len(components) =>
              /\ Len(components') = Len(components) + 1
              /\ At(components', Len(components)).id = IF pc = "loop" THEN "EQ" ELSE "C"
       /\ Pushed => steps'[Len(steps')].equivalent = Len(components)]_vars

\* the stores hold nodes and components the caller added, retired members
\* and an equivalent the reducer appended after them
C17_Witness ==
    /\ Returned
    /\ Len(nodes) >= 2
    /\ \E e \in Indices(components) :
          /\ Comp(e).id = "EQ"
          /\ \A i \in Built : i < e
          /\ \E i \in Built : ~Comp(i).is_active

(***************************************************************************)
(* C18.  The ground, if set, designates an existing node: ground is unset  *)
(* or an index below nodes.len(); is_ground holds for at most one index,   *)
(* the one last passed to set_ground; and adding nodes or components       *)
(* leaves the ground as it is.                                             *)
(***************************************************************************)
GroundDesignatesNode ==
    /\ ground = None \/ ground.v \in Indices(nodes)
    /\ Cardinality({n \in 0 .. Len(nodes) : is_ground(ground, n)}) <= 1

C18_GroundIsExistingNode ==
    [][/\ GroundDesignatesNode'
       /\ \A idx \in GroundIndices :
              (CallSetGround /\ ground' = Some(idx)) =>
                  \A n \in 0 .. Len(nodes) : is_ground(ground', n) <=> n = idx
       /\ (CallAddNode \/ CallAddComponent) => ground' = ground]_vars

(***************************************************************************)
(* The combinators of units.rs applied to a slice of impedances.  The      *)
(* slice is drawn when the behaviour starts; each action is one call.      *)
(***************************************************************************)
\* the longest slice
MaxLen == 3

\* the elements of the slices: the two ideal variants, two resistances, the
\* two reactances j and -j (an inductor and a capacitor at resonance) and
\* the finite zero
ZValues ==
    { Open, Short,
      Finite(Cx(RInt(1), R0)), Finite(Cx(RInt(2), R0)),
      Finite(Cx(R0, RInt(1))), Finite(Cx(R0, RInt(-1))), Finite(CZero) }

Slices == UNION {[1 .. n -> ZValues] : n \in 0 .. MaxLen}

UnitsInit ==
    /\ nodes = <<>>
    /\ components = <<>>
    /\ adjacency = <<>>
    /\ ground = None
    /\ pc = "idle"
    /\ steps = <<>>
    /\ results = <<>>
    /\ profile = "any"
    /\ operands \in Slices
    /\ combined = None

Called(f, z) == Some([f |-> f, z |-> z])

\* combine_series_many(&impedances)
CombineSeriesMany ==
    /\ combined' = Called("combine_series_many", combine_series_many(operands))
    /\ UNCHANGED <<nodes, components, adjacency, ground, pc, steps, results, profile, operands>>

\* combine_parallel_many(&impedances)
CombineParallelMany ==
    /\ combined' = Called("combine_parallel_many", combine_parallel_many(operands))
    /\ UNCHANGED <<nodes, components, adjacency, ground, pc, steps, results, profile, operands>>

\* combine_series(z1, z2)
CombineSeries ==
    /\ Len(operands) = 2
    /\ combined' = Called("combine_series", combine_series(operands[1], operands[2]))
    /\ UNCHANGED <<nodes, components, adjacency, ground, pc, steps, results, profile, operands>>

\* combine_parallel(z1, z2)
CombineParallel ==
    /\ Len(operands) = 2
    /\ combined' = Called("combine_parallel", combine_parallel(operands[1], operands[2]))
    /\ UNCHANGED <<nodes, components, adjacency, ground, pc, steps, results, profile, operands>>

\* three operands combined by two calls, grouped to the left (z) and to the
\* right (z_right)
CalledTwice(f, z, z_right) == Some([f |-> f, z |-> z, z_right |-> z_right])

\* combine_series(combine_series(a, b), c) and combine_series(a, combine_series(b, c))
CombineSeriesTwice ==
    /\ Len(operands) = 3
    /\ combined' = CalledTwice("combine_series twice",
           combine_series(combine_series(operands[1], operands[2]), operands[3]),
           combine_series(operands[1], combine_series(operands[2], operands[3])))
    /\ UNCHANGED <<nodes, components, adjacency, ground, pc, steps, results, profile, operands>>

\* combine_parallel(combine_parallel(a, b), c) and
\* combine_parallel(a, combine_parallel(b, c))
CombineParallelTwice ==
    /\ Len(operands) = 3
    /\ combined' = CalledTwice("combine_parallel twice",
           combine_parallel(combine_parallel(operands[1], operands[2]), operands[3]),
           combine_parallel(operands[1], combine_parallel(operands[2], operands[3])))
    /\ UNCHANGED <<nodes, components, adjacency, ground, pc, steps, results, profile, operands>>

(***************************************************************************)
(* f64 arguments of the scalar constructors: a finite value (far from      *)
(* overflow) or one of the special values.                                 *)
(***************************************************************************)
f64(v) == [class |-> "finite", v |-> v]
f64_INFINITY == [class |-> "inf", v |-> R0]
f64_NEG_INFINITY == [class |-> "-inf", v |-> R0]
f64_NAN == [class |-> "nan", v |-> R0]

\* x.is_finite()
f64_is_finite(x) == x.class = "finite"

\* x > 0.0 and x >= 0.0 (false for NaN)
f64_gt_zero(x) == x.class = "inf" \/ (x.class = "finite" /\ RPos(x.v))
f64_ge_zero(x) == x.class = "inf" \/ (x.class = "finite" /\ x.v[1] >= 0)

\* std::f64::consts::PI doubled, as a positive rational
TwoPi == <<710, 113>>

\* 2.0 * PI * freq
f64_times_two_pi(x) == IF x.class = "finite" THEN f64(RMul[TwoPi, x.v]) ELSE x

AngularFrequency_new(omega) ==
    IF f64_ge_zero(omega) /\ f64_is_finite(omega)
    THEN Ok(omega) ELSE Err("InvalidAngularFrequency")

AngularFrequency_hz(freq) == f64_times_two_pi(freq)

\* Resistance::known on an f64 that may be a special value
Resistance_known_f64(r) ==
    IF f64_gt_zero(r) /\ f64_is_finite(r) THEN Resistance_known(r.v)
    ELSE Err("InvalidResistance")

Inductance_known(l) ==
    IF f64_gt_zero(l) /\ f64_is_finite(l) THEN Ok(Known(l.v))
    ELSE Err("InvalidInductance")

Capacitance_known(c) ==
    IF f64_gt_zero(c) /\ f64_is_finite(c) THEN Ok(Known(c.v))
    ELSE Err("InvalidCapacitance")

F64Inputs ==
    { f64(RInt(-1)), f64(R0), f64(RInt(1)), f64(RInt(2)),
      f64_INFINITY, f64_NEG_INFINITY, f64_NAN }

Constructors ==
    { "AngularFrequency::new", "AngularFrequency::hz",
      "Resistance::known", "Inductance::known", "Capacitance::known" }

Construct(ctor, x) ==
    CASE ctor = "AngularFrequency::new" -> AngularFrequency_new(x)
      [] ctor = "AngularFrequency::hz" -> Ok(AngularFrequency_hz(x))
      [] ctor = "Resistance::known" -> Resistance_known_f64(x)
      [] ctor = "Inductance::known" -> Inductance_known(x)
      [] ctor = "Capacitance::known" -> Capacitance_known(x)

\* one call of a scalar constructor; z is what it returned
CallConstructor ==
    /\ operands = <<>>
    /\ \E ctor \in Constructors, x \in F64Inputs :
          combined' = Some([f |-> ctor, z |-> Construct(ctor, x), x |-> x])
    /\ UNCHANGED <<nodes, components, adjacency, ground, pc, steps, results, profile, operands>>

\* kind.impedance(omega) of a resistor, inductor or capacitor built with
\* known(x).unwrap(), at AngularFrequency::new(w).unwrap()
CallImpedance ==
    /\ operands = <<>>
    /\ \E x \in F64Inputs, w \in F64Inputs :
          \E built \in { [k |-> Resistance_known_f64(x), tag |-> "Resistor"],
                         [k |-> Inductance_known(x), tag |-> "Inductor"],
                         [k |-> Capacitance_known(x), tag |-> "Capacitor"] } :
             \E omega \in {AngularFrequency_new(w)} :
                /\ built.k.ok /\ omega.ok
                /\ \E kind \in { CASE built.tag = "Resistor" -> Resistor(built.k.val)
                                   [] built.tag = "Inductor" -> Inductor(built.k.val)
                                   [] built.tag = "Capacitor" -> Capacitor(built.k.val) } :
                      combined' = Some([f |-> "impedance",
                                        z |-> impedance(kind, omega.val.v),
                                        kind |-> kind, omega |-> omega.val.v])
    /\ UNCHANGED <<nodes, components, adjacency, ground, pc, steps, results, profile, operands>>

\* impedance_to_kind(z) of a slice of one
CallImpedanceToKind ==
    /\ Len(operands) = 1
    /\ combined' = Called("impedance_to_kind", impedance_to_kind(operands[1]))
    /\ UNCHANGED <<nodes, components, adjacency, ground, pc, steps, results, profile, operands>>

UnitsNext ==
    \/ CombineSeriesMany
    \/ CombineParallelMany
    \/ CombineSeries
    \/ CombineParallel
    \/ CombineSeriesTwice
    \/ CombineParallelTwice
    \/ CallConstructor
    \/ CallImpedance
    \/ CallImpedanceToKind

UnitsSpec == UnitsInit /\ [][UnitsNext]_vars

(***************************************************************************)
(* C19.  combine_series_many(xs) is Open if any element is Open; otherwise *)
(* Finite(sum of the Finite elements) if there is a Finite element, the    *)
(* Short elements adding nothing; otherwise, for a slice of Shorts and for *)
(* the empty slice, Short.                                                 *)
(***************************************************************************)
Has(xs, tag) == \E k \in DOMAIN xs : xs[k].tag = tag

\* the positions of the Finite elements of xs
FinitePositions(xs) == {k \in DOMAIN xs : xs[k].tag = "Finite"}

\* the sum of the elements of xs at the positions S
RECURSIVE SumAt(_, _)
SumAt(xs, S) ==
    IF S = {} THEN CZero
    ELSE LET k == CHOOSE j \in S : TRUE
         IN  CAdd[xs[k].z, SumAt(xs, S \ {k})]

ReturnedBy(f) == combined # None /\ combined.v.f = f

C19_SeriesMany ==
    ReturnedBy("combine_series_many") =>
        combined.v.z =
            IF Has(operands, "Open") THEN Open
            ELSE IF Has(operands, "Finite")
                 THEN Finite(SumAt(operands, FinitePositions(operands)))
                 ELSE Short

(***************************************************************************)
(* C20.  combine_parallel_many(xs) is Short if any element is Short;       *)
(* otherwise Open if no Finite element is left (a slice of Opens, or the   *)
(* empty slice); otherwise Finite(1 / sum of 1/z) over the Finite          *)
(* elements, the Open elements adding no admittance.                       *)
(***************************************************************************)
\* the sum of the reciprocals of the elements of xs at the positions S
RECURSIVE SumRecipAt(_, _)
SumRecipAt(xs, S) ==
    IF S = {} THEN CZero
    ELSE LET k == CHOOSE j \in S : TRUE
         IN  CAdd[CRecip[xs[k].z], SumRecipAt(xs, S \ {k})]

C20_ParallelMany ==
    ReturnedBy("combine_parallel_many") =>
        combined.v.z =
            IF Has(operands, "Short") THEN Short
            ELSE IF ~Has(operands, "Finite") THEN Open
            ELSE Finite(CRecip[SumRecipAt(operands, FinitePositions(operands))])

\* the call was given an Open element among different Finite ones and
\* returned their parallel combination
C20_Witness ==
    /\ ReturnedBy("combine_parallel_many")
    /\ Has(operands, "Open")
    /\ \E j, k \in FinitePositions(operands) : operands[j] # operands[k]
    /\ combined.v.z.tag = "Finite"
    /\ ~IsNaN(combined.v.z.z)

(***************************************************************************)
(* C21.  Identity laws: combine_series(a, Short) = combine_series(Short,   *)
(* a) = a and combine_parallel(a, Open) = combine_parallel(Open, a) = a,   *)
(* for a Finite, Open or Short.                                            *)
(***************************************************************************)
C21_IdentityLaws ==
    /\ ReturnedBy("combine_series") =>
          /\ operands[2] = Short => combined.v.z = operands[1]
          /\ operands[1] = Short => combined.v.z = operands[2]
    /\ ReturnedBy("combine_parallel") =>
          /\ operands[2] = Open => combined.v.z = operands[1]
          /\ operands[1] = Open => combined.v.z = operands[2]

\* a Finite operand came back from a series combination with Short
C21_Witness ==
    /\ ReturnedBy("combine_series")
    /\ operands[1].tag = "Finite"
    /\ operands[2] = Short
    /\ combined.v.z = operands[1]

(***************************************************************************)
(* C22.  Annihilator laws: combine_series(a, Open) = combine_series(Open,  *)
(* a) = Open and combine_parallel(a, Short) = combine_parallel(Short, a) = *)
(* Short, for a Finite, Open or Short.                                     *)
(***************************************************************************)
C22_AnnihilatorLaws ==
    /\ ReturnedBy("combine_series") =>
          (Open \in {operands[1], operands[2]} => combined.v.z = Open)
    /\ ReturnedBy("combine_parallel") =>
          (Short \in {operands[1], operands[2]} => combined.v.z = Short)

\* the parallel combination of Open and Short returned Short
C22_Witness ==
    /\ ReturnedBy("combine_parallel")
    /\ operands = <<Open, Short>>
    /\ combined.v.z = Short

(***************************************************************************)
(* C23.  Commutativity: combine_series(a, b) = combine_series(b, a) and    *)
(* combine_parallel(a, b) = combine_parallel(b, a) for all a, b of the     *)
(* extended domain.  (Two results that are both Finite(NaN) count as the   *)
(* same result.)                                                           *)
(***************************************************************************)
C23_Commutativity ==
    /\ ReturnedBy("combine_series") =>
          combined.v.z = combine_series(operands[2], operands[1])
    /\ ReturnedBy("combine_parallel") =>
          combined.v.z = combine_parallel(operands[2], operands[1])

\* two different Finite operands were combined in parallel to a number
C23_Witness ==
    /\ ReturnedBy("combine_parallel")
    /\ operands[1].tag = "Finite"
    /\ operands[2].tag = "Finite"
    /\ operands[1] # operands[2]
    /\ combined.v.z.tag = "Finite"
    /\ ~IsNaN(combined.v.z.z)

(***************************************************************************)
(* C24.  Associativity: for all a, b, c of the extended domain, Open and   *)
(* Short included, combine_series(combine_series(a, b), c) and             *)
(* combine_series(a, combine_series(b, c)) are the same variant with the   *)
(* same value, and likewise for combine_parallel.                          *)
(***************************************************************************)
C24_Associativity ==
    (ReturnedBy("combine_series twice") \/ ReturnedBy("combine_parallel twice")) =>
        combined.v.z = combined.v.z_right

(***************************************************************************)
(* C25.  Passivity preservation: when every operand of combine_series,     *)
(* combine_parallel, combine_series_many or combine_parallel_many is Open, *)
(* Short or Finite with a real part >= 0, the result is Open, Short or     *)
(* Finite with a real part >= 0.                                           *)
(***************************************************************************)
\* z.re >= 0.0, which is false for NaN
NonNegativeReal(z) == ~IsNaN(z) /\ z.re[1] >= 0

PassiveResult(x) == x.tag = "Finite" => NonNegativeReal(x.z)

Combinators ==
    { "combine_series", "combine_parallel", "combine_series_many",
      "combine_parallel_many", "combine_series twice", "combine_parallel twice" }

C25_PassivityPreserved ==
    (/\ combined # None
     /\ combined.v.f \in Combinators
     /\ \A k \in DOMAIN operands : PassiveResult(operands[k])) =>
        /\ PassiveResult(combined.v.z)
        /\ "z_right" \in DOMAIN combined.v => PassiveResult(combined.v.z_right)

(***************************************************************************)
(* C26.  A finite zero in parallel is a short: combine_parallel(Finite(a), *)
(* Finite(b)) with a = 0 or b = 0 returns Short, and so does               *)
(* combine_parallel_many when one of its Finite elements is zero.          *)
(***************************************************************************)
C26_ParallelZeroIsShort ==
    /\ (/\ ReturnedBy("combine_parallel")
        /\ operands[1].tag = "Finite" /\ operands[2].tag = "Finite"
        /\ Finite(CZero) \in {operands[1], operands[2]})
       => combined.v.z = Short
    /\ (ReturnedBy("combine_parallel_many") /\ Finite(CZero) \in Elements(operands))
       => combined.v.z = Short

(***************************************************************************)
(* C27.  The DC limits: at omega = 0, for every known positive r, l and c, *)
(* impedance(Resistor{r}) is Finite(r), impedance(Inductor{l}) is Short    *)
(* and impedance(Capacitor{c}) is Open.                                    *)
(***************************************************************************)
C27_DcLimits ==
    (ReturnedBy("impedance") /\ combined.v.omega = R0) =>
        LET kind == combined.v.kind
        IN  /\ kind.tag = "Resistor" => combined.v.z = Finite(Cx(kind.r.val, R0))
            /\ kind.tag = "Inductor" => combined.v.z = Short
            /\ kind.tag = "Capacitor" => combined.v.z = Open

(***************************************************************************)
(* C28.  Validated scalars satisfy their domain: every AngularFrequency a  *)
(* public constructor hands out wraps a non-negative finite real, and      *)
(* Resistance::known, Inductance::known and Capacitance::known return a    *)
(* validation error and no value for a non-positive or non-finite input.   *)
(***************************************************************************)
C28_ValidatedScalars ==
    /\ (ReturnedBy("AngularFrequency::new") \/ ReturnedBy("AngularFrequency::hz"))
       => (combined.v.z.ok =>
              /\ combined.v.z.val.class = "finite"
              /\ combined.v.z.val.v[1] >= 0)
    /\ (\/ ReturnedBy("Resistance::known")
        \/ ReturnedBy("Inductance::known")
        \/ ReturnedBy("Capacitance::known"))
       => ((combined.v.x.class # "finite" \/ ~RPos(combined.v.x.v))
              => ~combined.v.z.ok)

(***************************************************************************)
(* A bank of three: the caller adds a resistor of 10, an ideal Short       *)
(* branch and a resistor of 20, each once, between nodes of a small graph, *)
(* and reduces it.                                                         *)
(***************************************************************************)
MaxBankNodes == 3

R10 == Resistor(Known(RInt(10)))
R20 == Resistor(Known(RInt(20)))

BankKinds == {R10, ZShort, R20}

BankAddNode ==
    /\ pc = "idle"
    /\ results = <<>>
    /\ Len(nodes) < MaxBankNodes
    /\ LET a == add_node(G, NodeId(Len(nodes)))
       IN  /\ nodes' = a.g.nodes
           /\ adjacency' = a.g.adjacency
    /\ UNCHANGED <<components, ground, pc, steps, results, profile, operands, combined>>

BankAddComponent ==
    /\ pc = "idle"
    /\ results = <<>>
    /\ \E kind \in BankKinds \ BuiltKinds, n0 \in Indices(nodes), n1 \in Indices(nodes) :
          /\ n0 # n1
          /\ LET a == add_component(G, "C", kind, n0, n1, profile = "debug")
             IN  /\ nodes' = a.g.nodes
                 /\ components' = a.g.components
                 /\ adjacency' = a.g.adjacency
    /\ UNCHANGED <<ground, pc, steps, results, profile, operands, combined>>

BankNext ==
    \/ BankAddNode
    \/ BankAddComponent
    \/ ReduceStart
    \/ ReduceSeries
    \/ ReduceParallel
    \/ ReduceReturn

BankSpec == Init /\ [][BankNext]_vars

\* the three components are built, all between the same two nodes
BankBuilt ==
    /\ BuiltKinds = BankKinds
    /\ \E n0 \in Indices(nodes), n1 \in Indices(nodes) :
          n0 # n1 /\ \A i \in Built : Endpoints(Comp(i)) = {n0, n1}

(***************************************************************************)
(* C29.  Reducing the bank of R = 10, Short and R = 20 between the same    *)
(* two nodes yields an equivalent whose impedance is Short, and leaves     *)
(* exactly one active component.                                           *)
(***************************************************************************)
C29_ShortedBank ==
    (BankBuilt /\ pc = "idle" /\ Len(results) = 1) =>
        /\ Cardinality(Active) = 1
        /\ \E e \in Active :
              /\ Comp(e).id = "EQ"
              /\ \A omega \in Omegas : impedance(Comp(e).kind, omega) = Short

(***************************************************************************)
(* C30.  When reduce returns the graph is at a fixed point of the rewrite  *)
(* rules: no node other than the ground has exactly two active incident    *)
(* components that are both passive and lead to two different outer nodes, *)
(* and no two active passive components join the same unordered pair of    *)
(* nodes.                                                                  *)
(***************************************************************************)
ActiveAt(n) == {i \in Active : n \in Endpoints(Comp(i))}

Outer(i, n) == IF Comp(i).nodes[1] = n THEN Comp(i).nodes[2] ELSE Comp(i).nodes[1]

SeriesApplies(n) ==
    /\ ~is_ground(ground, n)
    /\ Cardinality(ActiveAt(n)) = 2
    /\ \A i \in ActiveAt(n) : PassiveKind(Comp(i).kind)
    /\ \E i, j \in ActiveAt(n) : Outer(i, n) # Outer(j, n)

ParallelApplies ==
    \E i, j \in ActivePassive(components) :
        i # j /\ Endpoints(Comp(i)) = Endpoints(Comp(j))

C30_FixedPointAtReturn ==
    Returned =>
        /\ \A n \in Indices(nodes) : ~SeriesApplies(n)
        /\ ~ParallelApplies

(***************************************************************************)
(* C31.  Series has priority: in every iteration of the loop in which a    *)
(* series pivot exists, reduce applies a Series step at the qualifying     *)
(* pivot with the lowest node index; a Parallel step is logged only if no  *)
(* series pivot existed in the state in which it was found.                *)
(***************************************************************************)
SeriesPivots == {n \in Indices(nodes) : SeriesApplies(n)}

C31_SeriesFirstLowestPivot ==
    [][Pushed =>
        LET step == steps'[Len(steps')]
        IN  /\ SeriesPivots # {} =>
                  /\ step.kind = "Series"
                  /\ Pivot(step) \in SeriesPivots
                  /\ \A n \in SeriesPivots : Pivot(step) <= n
            /\ step.kind = "Parallel" => SeriesPivots = {}]_vars

(***************************************************************************)
(* A mesh of equal resistors: the caller joins up to three nodes with up   *)
(* to MaxMeshComponents resistors of 1 ohm, several of them between the    *)
(* same two nodes, and reduces the graph.                                  *)
(***************************************************************************)
MaxMeshComponents == 5

MeshAddComponent ==
    /\ pc = "idle"
    /\ results = <<>>
    /\ Len(components) < MaxMeshComponents
    /\ \E n0 \in Indices(nodes), n1 \in Indices(nodes) :
          /\ n0 # n1
          /\ LET a == add_component(G, "C", R1, n0, n1, profile = "debug")
             IN  /\ nodes' = a.g.nodes
                 /\ components' = a.g.components
                 /\ adjacency' = a.g.adjacency
    /\ UNCHANGED <<ground, pc, steps, results, profile, operands, combined>>

MeshNext ==
    \/ BankAddNode
    \/ MeshAddComponent
    \/ ReduceStart
    \/ ReduceSeries
    \/ ReduceParallel
    \/ ReduceReturn

MeshSpec == Init /\ [][MeshNext]_vars

(***************************************************************************)
(* C32.  Parallel discovery is deterministic: among the classes of active  *)
(* passive components that share an unordered endpoint pair, the Parallel  *)
(* step reduce applies takes one of largest cardinality >= 2 and, among    *)
(* classes of that cardinality, the one with the lowest member index; so   *)
(* equal graphs and equal omega give equal logs and equal final graphs.    *)
(***************************************************************************)
\* the classes of two or more members, each in ascending index order
ParallelClasses ==
    LET groups == parallel_groups(G)
    IN  {groups[k] : k \in {k2 \in DOMAIN groups : Len(groups[k2]) > 1}}

\* the class the tie-break names
LargestLowestClass ==
    CHOOSE c \in ParallelClasses :
        \A d \in ParallelClasses :
            Len(d) < Len(c) \/ (Len(d) = Len(c) /\ c[1] <= d[1])

C32_ParallelDeterministic ==
    [][(Pushed /\ steps'[Len(steps')].kind = "Parallel") =>
          steps'[Len(steps')].components = LargestLowestClass]_vars

(***************************************************************************)
(* C33.  Every Series step reduce logs is taken at a node whose two active *)
(* incident components c1 and c2 are passive; its impedance is             *)
(* combine_series(z1, z2) of their cached impedances; and its equivalent   *)
(* is a new component that connects the outer endpoints o1 and o2 of c1    *)
(* and c2, never the middle node.                                          *)
(***************************************************************************)
C33_SeriesStepRecord ==
    [][(Pushed /\ steps'[Len(steps')].kind = "Series") =>
        LET step == steps'[Len(steps')]
            c1 == step.components[1]
            c2 == step.components[2]
            n == Pivot(step)
            eq == At(components', step.equivalent)
        IN  /\ ActiveAt(n) = {c1, c2}
            /\ PassiveKind(Comp(c1).kind) /\ PassiveKind(Comp(c2).kind)
            /\ Comp(c1).cached_impedance # None /\ Comp(c2).cached_impedance # None
            /\ Finite(step.impedance)
                  = combine_series(Comp(c1).cached_impedance.v, Comp(c2).cached_impedance.v)
            /\ step.equivalent = Len(components)
            /\ Len(components') = Len(components) + 1
            /\ eq.nodes \in {<<Outer(c1, n), Outer(c2, n)>>, <<Outer(c2, n), Outer(c1, n)>>}
            /\ n \notin {eq.nodes[1], eq.nodes[2]}]_vars

(***************************************************************************)
(* C34.  Every Parallel step reduce logs records impedance =               *)
(* combine_parallel_many of the cached impedances of all its members       *)
(* (Short if any member is a short, Open if all members are Open,          *)
(* otherwise the reciprocal of the summed admittances), and its equivalent *)
(* is a new component on the members' common endpoint pair.                *)
(***************************************************************************)
CachedOf(members) ==
    [k \in DOMAIN members |-> Comp(members[k]).cached_impedance.v]

C34_ParallelStepRecord ==
    [][(Pushed /\ steps'[Len(steps')].kind = "Parallel") =>
        LET step == steps'[Len(steps')]
            eq == At(components', step.equivalent)
        IN  /\ \A k \in DOMAIN step.components :
                  Comp(step.components[k]).cached_impedance # None
            /\ new_finite(step.impedance) = combine_parallel_many(CachedOf(step.components))
            /\ step.equivalent = Len(components)
            /\ Len(components') = Len(components) + 1
            /\ \A k \in DOMAIN step.components :
                  Endpoints(Comp(step.components[k])) = Endpoints(eq)]_vars

(***************************************************************************)
(* C35.  Applying a step marks exactly the step's members inactive,        *)
(* appends exactly one new active component and sets the step's equivalent *)
(* to the index of that component, the last index of components after the  *)
(* append; the new index is in the adjacency of both endpoints of the      *)
(* equivalent, and no logged step keeps the placeholder equivalent 0       *)
(* unless component 0 is really its equivalent.                            *)
(***************************************************************************)
C35_ApplicationEffects ==
    [][Pushed =>
        LET step == steps'[Len(steps')]
            eq == At(components', step.equivalent)
        IN  /\ \A i \in Indices(components) :
                  At(components', i).is_active = (Comp(i).is_active /\ i \notin Members(step))
            /\ Len(components') = Len(components) + 1
            /\ step.equivalent = Len(components') - 1
            /\ eq.is_active /\ eq.id = "EQ"
            /\ \A n \in {eq.nodes[1], eq.nodes[2]} :
                  step.equivalent \in Elements(At(adjacency', n))]_vars

(***************************************************************************)
(* C36.  impedance_to_kind maps Finite(z) with |Im z| < 1e-12 and Re z > 0 *)
(* to a Resistor of value Re z, every other Finite(z), also one with       *)
(* |Im z| < 1e-12 and Re z <= 0, to the generic Impedance{Finite(z)}, and  *)
(* Open and Short to Impedance{Open} and Impedance{Short}.                 *)
(***************************************************************************)
C36_ImpedanceToKind ==
    ReturnedBy("impedance_to_kind") =>
        LET z == operands[1]
        IN  combined.v.z =
                IF z.tag = "Finite" /\ ~IsNaN(z.z) /\ AbsBelowEpsilon(z.z.im) /\ RPos(z.z.re)
                THEN Ok(Resistor(Known(z.z.re)))
                ELSE Ok(Impedance(z))

(***************************************************************************)
(* C37.  The members of every step are pairwise distinct component         *)
(* indices: a Series step never combines a component with itself, even at  *)
(* a node where connections_at returns the same component index twice.     *)
(***************************************************************************)
C37_DistinctMembers ==
    \A k \in DOMAIN AllSteps :
        Cardinality(Members(AllSteps[k])) = Len(AllSteps[k].components)

(***************************************************************************)
(* C38.  reduce changes nothing in the graph except is_active of step      *)
(* members (from true to false only), the appended equivalents with their  *)
(* adjacency entries, and cached_impedance values: the node list, the      *)
(* ground, and the id, kind and endpoints of every component that existed  *)
(* before are the same after a step of reduce as before it.                *)
(***************************************************************************)
\* a step of reduce: its start, an iteration of its loop, or its return
ReduceStep == pc = "loop" \/ pc' = "loop"

\* the members of the step the iteration that starts in this state applies
FoundMembers ==
    IF pc # "loop" THEN {}
    ELSE IF find_series_reduction(G) # None THEN Members(find_series_reduction(G).v)
    ELSE UNION {Members(s.v) : s \in find_parallel_reduction(G) \ {None}}

NoUnderflow == profile = "any"

C39_DegreeCounterConsistent ==
    /\ NoUnderflow
    /\ \A n \in Indices(nodes) :
          /\ At(nodes, n).degree = get_node_degree(G, n)
          /\ (At(nodes, n).degree = 2) <=> (Len(connections_at(G, n)) = 2)

====
